---- MODULE Spec2Model ----
(***************************************************************************)
(* GRE-Vocab-Master: the Leitner scheduler (utils/srs), the persistent     *)
(* store (utils/db) and the App component's study session, lazy card       *)
(* loader and background enrichment worker.                                *)
(*                                                                         *)
(* The repository holds two builds of the App component.  src/unnamed/     *)
(* part_002 has the background worker, dailyUniqueProgress and the         *)
(* reshuffle; src/App.tsx has neither, and grades through                  *)
(* calculateNextReview.  The variable build says which of the two runs.    *)
(*                                                                         *)
(* Timestamps are counted in seconds (the code's milliseconds / 1000) so   *)
(* that now + 30 days stays inside TLC's integers.                         *)
(***************************************************************************)
EXTENDS Integers, Sequences, FiniteSets, Bags, TLC

\* ---------------------------------------------------------------- bounds
MaxEvents == 3         \* user events and clock steps in one behaviour
MaxTicks == 1          \* clock steps of one day
MaxSessions == 2       \* study sessions started
MaxViews == 1          \* view changes through the layout
MaxClicks == 2         \* clicks on the two grading buttons
MaxAux == 1            \* mnemonic saves, image generations, bulk adds, reshuffles
MaxLoads == 2          \* lazy card fetches in flight
MaxPendingSaves == 2   \* store writes issued and not yet committed
MaxCustom == 1
MaxStoreFailures == 1
MaxImports == 1
MaxDbProgress == 2
MaxDeck == 3         \* custom-... ids ever minted

\* ------------------------------------------------------- program constants
DaySecs == 24 * 60 * 60
StartNow == 40 * DaySecs

INTERVALS == <<1, 1, 3, 7, 14, 30>>     \* INTERVALS[b + 1] is the code's INTERVALS[b]

WORDS_PER_SET == 30

INITIAL_WORDS_LIST == <<"ab", "cd">>

\* `seed-${Date.now()}-${i}` and `custom-${Date.now()}-${random}` are the
\* pairs <<"seed", i>> and <<"custom", n>>, n counting the ids minted so far
Min(a, b) == IF a < b THEN a ELSE b

\* w.toLowerCase() on the headwords of the model
toLowerCase(s) == IF s = "Ab" THEN "ab" ELSE s

\* id.startsWith('seed-') / id.startsWith('custom-')
startsWithSeed(id) == id[1] = "seed"
startsWithCustom(id) == id[1] = "custom"

\* ------------------------------------------------------------------ srs.ts
calculateNextReviewBadCap(currentBox, isCorrect, t) ==
    LET newBox == IF isCorrect THEN currentBox + 1 ELSE 1
        daysToAdd == IF newBox + 1 \in DOMAIN INTERVALS THEN INTERVALS[newBox + 1] ELSE 1
    IN  [box |-> newBox, nextReview |-> t + daysToAdd * DaySecs]

calculateNextReviewDecrement(currentBox, isCorrect, t) ==
    LET newBox == IF isCorrect THEN Min(currentBox + 1, 5)
                  ELSE IF currentBox > 1 THEN currentBox - 1 ELSE 1
        daysToAdd == IF newBox + 1 \in DOMAIN INTERVALS THEN INTERVALS[newBox + 1] ELSE 1
    IN  [box |-> newBox, nextReview |-> t + daysToAdd * DaySecs]

\* t is the value of Date.now() at the call
calculateNextReview(currentBox, isCorrect, t) ==
    LET newBox == IF isCorrect THEN Min(currentBox + 1, 5) ELSE 1
        \* INTERVALS[newBox] || 1
        daysToAdd == IF newBox + 1 \in DOMAIN INTERVALS /\ INTERVALS[newBox + 1] # 0
                     THEN INTERVALS[newBox + 1] ELSE 1
    IN  [box |-> newBox, nextReview |-> t + daysToAdd * DaySecs]

isDueForReviewIgnoringMastered(word, t) ==
    IF word.nextReviewDate = 0 /\ word.leitnerBox > 0 THEN TRUE
    ELSE word.leitnerBox > 0 /\ t >= word.nextReviewDate

isDueForReviewAnyBox(word, t) ==
    IF word.mastered THEN FALSE
    ELSE IF word.nextReviewDate = 0 /\ word.leitnerBox > 0 THEN TRUE
    ELSE t >= word.nextReviewDate

isDueForReviewStrictlyAfter(word, t) ==
    IF word.mastered THEN FALSE
    ELSE IF word.nextReviewDate = 0 /\ word.leitnerBox > 0 THEN TRUE
    ELSE word.leitnerBox > 0 /\ t > word.nextReviewDate

\* !word.nextReviewDate is nextReviewDate = 0 (0 also stands for an unset date)
isDueForReview(word, t) ==
    IF word.mastered THEN FALSE
    ELSE IF word.nextReviewDate = 0 /\ word.leitnerBox > 0 THEN TRUE
    ELSE word.leitnerBox > 0 /\ t >= word.nextReviewDate

getReviewQueueNewestFirst(words, t) ==
    LET due == SelectSeq(words, LAMBDA w : isDueForReview(w, t))
    IN  [i \in DOMAIN due |-> due[Len(due) + 1 - i]]

getReviewQueue(words, t) == SelectSeq(words, LAMBDA w : isDueForReview(w, t))

\* ---------------------------------------------------------------- db.ts
\* the WordData literal of seedInitialData; userMnemonic, aiImageUrl,
\* lastReview and isCustom are absent there and read as "", "", 0, FALSE
SeedWord(i) ==
    [id |-> <<"seed", i>>,
     word |-> INITIAL_WORDS_LIST[i + 1],
     definitions |-> 0,
     mastered |-> FALSE,
     leitnerBox |-> 0,
     nextReviewDate |-> 0,
     lastReview |-> 0,
     userMnemonic |-> "",
     aiImageUrl |-> "",
     isCustom |-> FALSE]

DEFAULT_STATE ==
    [words |-> <<>>, streak |-> 0, dailyProgress |-> 0, dailyUniqueProgress |-> 0]

seedInitialData(state) ==
    LET existingWordSet == {toLowerCase(state.words[i].word) : i \in DOMAIN state.words}
        idx == {i \in 0 .. Len(INITIAL_WORDS_LIST) - 1 :
                    toLowerCase(INITIAL_WORDS_LIST[i + 1]) \notin existingWordSet}
        additionalWords == [i \in 1 .. Len(INITIAL_WORDS_LIST) |-> SeedWord(i - 1)]
    IN  IF idx = {} THEN state
        ELSE [state EXCEPT !.words = state.words \o
                 SelectSeq(additionalWords,
                           LAMBDA w : toLowerCase(w.word) \notin existingWordSet)]

\* ------------------------------------------------------------------ state
VARIABLES
    build,              \* "part_002" or "App": which App component runs
    now,                \* Date.now()
    appState,           \* useState<AppState>
    stored,             \* the document under key 'root' of the object store
    pendingSaves,       \* documents handed to store.put and not yet committed
    currentView,
    studyQueue,
    currentCardIndex,
    sessionComplete,
    isLoadingWord,
    pendingQueue,
    worker,             \* <<>> or <<the processNext call awaiting its fetch>>
    loads,              \* bag of loadCard calls awaiting their fetch
    timers,             \* setTimeout(() => onNext(..), 300) callbacks, oldest first
    imageTasks,         \* bag of handleGenerateImage calls awaiting the image
    bulkTask,           \* <<>> or <<the App.tsx handleBulkAddWords call awaiting fetches>>
    customMinted,       \* number of custom ids minted
    used,               \* how many user events of each kind have happened
    srs                 \* input and result of a calculateNextReview call

vars == <<build, now, appState, stored, pendingSaves, currentView, studyQueue,
          currentCardIndex, sessionComplete, isLoadingWord, pendingQueue, worker,
          loads, timers, imageTasks, bulkTask, customMinted, used, srs>>

\* ------------------------------------------------------------ JS helpers
\* { ...w, ...details }: every key of details overrides the key of w
Spread(w, details) ==
    [k \in DOMAIN w \cup DOMAIN details |->
        IF k \in DOMAIN details THEN details[k] ELSE w[k]]

\* words.map(w => w.id === id ? updatedWord : w)
MapReplace(words, id, updatedWord) ==
    [i \in DOMAIN words |-> IF words[i].id = id THEN updatedWord ELSE words[i]]

\* words.find(w => w.id === id), as the set of its first position
FindIndex(words, id) ==
    LET hits == {i \in DOMAIN words : words[i].id = id}
    IN  IF hits = {} THEN {} ELSE {CHOOSE i \in hits : \A j \in hits : i <= j}

AppendAll(prev, ids) == prev \o ids

\* [...new Set([...prev, ...ids])]
RECURSIVE AppendUnique(_, _)
AppendUnique(prev, ids) ==
    IF ids = <<>> THEN prev
    ELSE LET h == Head(ids)
         IN  AppendUnique(IF \E i \in DOMAIN prev : prev[i] = h THEN prev
                          ELSE Append(prev, h), Tail(ids))

Range(s) == {s[i] : i \in DOMAIN s}

PermsOf(n) ==
    {p \in [1 .. n -> 1 .. n] : \A i, j \in 1 .. n : p[i] = p[j] => i = j}

\* the answers fetchWordDetails can resolve with: parseJSONResponse returns
\* whatever object the model's text holds
ProviderResponses ==
    { [definitions |-> 1],
      [definitions |-> 1, leitnerBox |-> 2, mastered |-> TRUE] }

\* the answers that carry what the prompt asks for and nothing else
ContentOnly == {[definitions |-> 1]}

\* ------------------------------------------------------------- effects
\* a worker effect that fetches the id enqueued last
RECURSIVE WorkerEffectNewestFirst(_, _, _)
WorkerEffectNewestFirst(doc, pq, wk) ==
    IF pq = <<>> \/ wk # <<>> THEN [pendingQueue |-> pq, worker |-> wk]
    ELSE LET nextId == pq[Len(pq)]
             at == FindIndex(doc.words, nextId)
         IN  IF at = {} THEN WorkerEffectNewestFirst(doc, SubSeq(pq, 1, Len(pq) - 1), <<>>)
             ELSE [pendingQueue |-> pq,
                   worker |-> << [nextId |-> nextId,
                                  wordToFetch |-> doc.words[CHOOSE i \in at : TRUE]] >>]

\* a worker effect without the isProcessingQueue guard
RECURSIVE WorkerEffectUnguarded(_, _, _)
WorkerEffectUnguarded(doc, pq, wk) ==
    IF pq = <<>> THEN [pendingQueue |-> pq, worker |-> wk]
    ELSE LET nextId == Head(pq)
             at == FindIndex(doc.words, nextId)
         IN  IF at = {} THEN WorkerEffectUnguarded(doc, Tail(pq), wk)
             ELSE [pendingQueue |-> pq,
                   worker |-> Append(wk, [nextId |-> nextId,
                                          wordToFetch |-> doc.words[CHOOSE i \in at : TRUE]])]

\* the background worker effect, deps [pendingQueue, appState]
RECURSIVE WorkerEffect(_, _, _)
WorkerEffect(doc, pq, wk) ==
    IF pq = <<>> \/ wk # <<>> THEN [pendingQueue |-> pq, worker |-> wk]
    ELSE LET nextId == Head(pq)
             at == FindIndex(doc.words, nextId)
         IN  IF at = {} THEN WorkerEffect(doc, Tail(pq), <<>>)
             ELSE [pendingQueue |-> pq,
                   worker |-> << [nextId |-> nextId,
                                  wordToFetch |-> doc.words[CHOOSE i \in at : TRUE]] >>]

\* loadCard(index) of the lazy loading effect run with currentCardIndex = cur
loadCard(sq, cur, index, st) ==
    IF index < Len(sq) /\ sq[index + 1].definitions = 0
    THEN [loads |-> st.loads (+) SetToBag({[index |-> index, word |-> sq[index + 1],
                                            current |-> (index = cur)]}),
          isLoadingWord |-> IF index = cur THEN TRUE ELSE st.isLoadingWord]
    ELSE st

\* the lazy loading effect, deps [currentCardIndex, currentView, studyQueue]
LazyEffect(view, sq, cur, st) ==
    IF view # "STUDY" \/ sq = <<>> THEN st
    ELSE LET s1 == loadCard(sq, cur, cur, st)
         IN  IF cur + 1 < Len(sq) THEN loadCard(sq, cur, cur + 1, s1) ELSE s1

\* renderStudy mounts the Flashcard of studyQueue[currentCardIndex]
FlashcardShown ==
    /\ currentView = "STUDY"
    /\ ~sessionComplete
    /\ studyQueue # <<>>
    /\ ~isLoadingWord
    /\ currentCardIndex < Len(studyQueue)

\* one render after a batch of state updates: the two effects run on the
\* committed values (runLazy: currentCardIndex, currentView or studyQueue
\* changed identity)
Render(doc, pq, wk, view, sq, cur, st, runLazy) ==
    LET we == WorkerEffect(doc, pq, wk)
        le == IF runLazy THEN LazyEffect(view, sq, cur, st) ELSE st
    IN  /\ BagCardinality(le.loads) <= MaxLoads
        /\ appState' = doc
        /\ pendingQueue' = we.pendingQueue
        /\ worker' = we.worker
        /\ currentView' = view
        /\ studyQueue' = sq
        /\ currentCardIndex' = cur
        /\ loads' = le.loads
        /\ isLoadingWord' = le.isLoadingWord

\* a user event of the given kind, while its budget lasts
AuxUsed == used.mnemonic + used.image + used.bulk + used.reshuffle

Use(kind, max) ==
    /\ used[kind] < max
    /\ used.session + used.view + used.click + used.tick + AuxUsed
          + used.fail + used.import < MaxEvents
    /\ used' = [used EXCEPT ![kind] = @ + 1]

UseAux(kind) ==
    /\ AuxUsed < MaxAux
    /\ Use(kind, MaxAux)

LoadState == [loads |-> loads, isLoadingWord |-> isLoadingWord]

\* saveStoredState(state): the put is issued and the promise resolves at once
saveStoredState(state) ==
    /\ Len(pendingSaves) < MaxPendingSaves
    /\ pendingSaves' = Append(pendingSaves, state)

\* a store that commits the newest pending save first
storePutNewestFirst ==
    /\ pendingSaves # <<>>
    /\ stored' = pendingSaves[Len(pendingSaves)]
    /\ pendingSaves' = SubSeq(pendingSaves, 1, Len(pendingSaves) - 1)
    /\ UNCHANGED <<used, build, now, appState, currentView, studyQueue, currentCardIndex,
                   sessionComplete, isLoadingWord, pendingQueue, worker, loads,
                   timers, imageTasks, bulkTask, customMinted, srs>>

\* the readwrite transaction of the oldest pending save commits
storePut ==
    /\ pendingSaves # <<>>
    /\ stored' = Head(pendingSaves)
    /\ pendingSaves' = Tail(pendingSaves)
    /\ UNCHANGED <<used, build, now, appState, currentView, studyQueue, currentCardIndex,
                   sessionComplete, isLoadingWord, pendingQueue, worker, loads,
                   timers, imageTasks, bulkTask, customMinted, srs>>

\* the open request or the transaction of the oldest pending save fails: no
\* onerror handler is set and the promise has resolved already, so nothing
\* in the App hears of it
storePutFailed ==
    /\ pendingSaves # <<>>
    /\ Use("fail", MaxStoreFailures)
    /\ pendingSaves' = Tail(pendingSaves)
    /\ UNCHANGED <<build, now, appState, stored, currentView, studyQueue,
                   currentCardIndex, sessionComplete, isLoadingWord, pendingQueue,
                   worker, loads, timers, imageTasks, bulkTask, customMinted, srs>>

Tick ==
    /\ Use("tick", MaxTicks)
    /\ now' = now + DaySecs
    /\ UNCHANGED <<build, appState, stored, pendingSaves, currentView, studyQueue,
                   currentCardIndex, sessionComplete, isLoadingWord, pendingQueue,
                   worker, loads, timers, imageTasks, bulkTask, customMinted, srs>>

\* ------------------------------------------------------------- sessions
\* a prepareStudySession with no check of the list's length
prepareStudySessionUnchecked(targetWords) ==
    /\ Use("session", MaxSessions)
    /\ Render(appState, pendingQueue, worker, "STUDY", targetWords, 0, LoadState, TRUE)
    /\ sessionComplete' = FALSE
    /\ UNCHANGED <<build, now, stored, pendingSaves, timers, imageTasks, bulkTask,
                   customMinted, srs>>

\* with an empty list: alert("No words selected to study.") and return
prepareStudySession(targetWords) ==
    /\ Use("session", MaxSessions)
    /\ IF targetWords = <<>>
       THEN UNCHANGED <<appState, pendingQueue, worker, currentView, studyQueue,
                        currentCardIndex, loads, isLoadingWord, sessionComplete>>
       ELSE /\ Render(appState, pendingQueue, worker, "STUDY", targetWords, 0,
                      LoadState, TRUE)
            /\ sessionComplete' = FALSE
    /\ UNCHANGED <<build, now, stored, pendingSaves, timers, imageTasks, bulkTask,
                   customMinted, srs>>

\* the views other than STUDY are one value, DASHBOARD
DashboardShown == currentView = "DASHBOARD"

\* the click on a set that changes nothing: window.confirm answered Cancel
DeclinedReview ==
    /\ Use("session", MaxSessions)
    /\ UNCHANGED <<build, now, appState, stored, pendingSaves, currentView,
                   studyQueue, currentCardIndex, sessionComplete, isLoadingWord,
                   pendingQueue, worker, loads, timers, imageTasks, bulkTask,
                   customMinted, srs>>

\* a startSetSession that slices the whole collection, not its seeded words
startSetSessionAllWords(setIndex, confirmReview) ==
    /\ DashboardShown
    /\ ~isLoadingWord
    /\ LET start == setIndex * WORDS_PER_SET
           end == start + WORDS_PER_SET
           setWords == SubSeq(appState.words, start + 1, Min(end, Len(appState.words)))
           toStudy == SelectSeq(setWords, LAMBDA w : w.leitnerBox = 0 \/ ~w.mastered)
       IN  IF toStudy = <<>>
           THEN IF confirmReview THEN prepareStudySession(setWords) ELSE DeclinedReview
           ELSE ~confirmReview /\ prepareStudySession(toStudy)

\* confirmReview is the answer to window.confirm, asked only when toStudy
\* is empty
startSetSession(setIndex, confirmReview) ==
    /\ DashboardShown
    /\ ~isLoadingWord
    /\ LET start == setIndex * WORDS_PER_SET
           end == start + WORDS_PER_SET
           seededWords == SelectSeq(appState.words, LAMBDA w : startsWithSeed(w.id))
           setWords == SubSeq(seededWords, start + 1, Min(end, Len(seededWords)))
           toStudy == SelectSeq(setWords, LAMBDA w : w.leitnerBox = 0 \/ ~w.mastered)
       IN  IF toStudy = <<>>
           THEN IF confirmReview THEN prepareStudySession(setWords) ELSE DeclinedReview
           ELSE ~confirmReview /\ prepareStudySession(toStudy)

startReviewSession ==
    /\ DashboardShown
    /\ prepareStudySession(getReviewQueue(appState.words, now))

\* Array.from(new Map(words.map(w => [w.id, w])).values()): one entry per id,
\* at the position of the id's first occurrence, holding its last occurrence
DedupById(words) ==
    LET firsts == {i \in DOMAIN words : \A j \in 1 .. i - 1 : words[j].id # words[i].id}
        last(i) == CHOOSE j \in DOMAIN words :
                      /\ words[j].id = words[i].id
                      /\ \A k \in DOMAIN words : words[k].id = words[i].id => k <= j
        keep == SelectSeq([i \in DOMAIN words |-> i], LAMBDA i : i \in firsts)
    IN  [n \in DOMAIN keep |-> words[last(keep[n])]]

\* the orders startCustomSession can put the deck in: any permutation under
\* 'random' (shuffleArray; words.sort(() => 0.5 - Math.random()) in App.tsx),
\* the stable sort by lastReview or creation stamp under 'newest' / 'oldest'
DeckOrders(type, deck, smartDeckSort) ==
    LET n == Len(deck)
        getValue(w) == IF type = "custom"
                       THEN (IF startsWithCustom(w.id) THEN w.id[2] ELSE 0)
                       ELSE w.lastReview
        before(a, b) == IF smartDeckSort = "newest" THEN getValue(a) > getValue(b)
                        ELSE getValue(a) < getValue(b)
        sorted(p) == \A i, j \in 1 .. n : i < j =>
                        /\ ~before(deck[p[j]], deck[p[i]])
                        /\ (~before(deck[p[i]], deck[p[j]]) => p[i] < p[j])
    IN  {[i \in 1 .. n |-> deck[p[i]]] :
            p \in {q \in PermsOf(n) : smartDeckSort = "random" \/ sorted(q)}}

\* a 'learning' filter that also takes the words never studied
CategoryWordsAnyBox(type) ==
    IF type = "mastered" THEN SelectSeq(appState.words, LAMBDA w : w.mastered)
    ELSE IF type = "learning"
         THEN SelectSeq(appState.words, LAMBDA w : ~w.mastered)
         ELSE SelectSeq(appState.words, LAMBDA w : w.isCustom \/ startsWithCustom(w.id))

CategoryWords(type) ==
    IF type = "mastered" THEN SelectSeq(appState.words, LAMBDA w : w.mastered)
    ELSE IF type = "learning"
         THEN SelectSeq(appState.words, LAMBDA w : ~w.mastered /\ w.leitnerBox > 0)
         ELSE SelectSeq(appState.words, LAMBDA w : w.isCustom \/ startsWithCustom(w.id))

startCustomSession(type, smartDeckSort) ==
    /\ DashboardShown
    /\ build = "App" => smartDeckSort = "random"
    /\ CategoryWords(type) # <<>>
    /\ LET words == CategoryWords(type)
           processedWords == IF build = "App" THEN words ELSE DedupById(words)
       IN  \E q \in DeckOrders(type, processedWords, smartDeckSort) :
              prepareStudySession(q)

\* the Study button of a library row
libraryStudy(i) ==
    /\ Use("session", MaxSessions)
    /\ DashboardShown
    /\ i \in DOMAIN appState.words
    /\ Render(appState, pendingQueue, worker, "STUDY", <<appState.words[i]>>, 0,
              LoadState, TRUE)
    /\ sessionComplete' = FALSE
    /\ UNCHANGED <<build, now, stored, pendingSaves, timers, imageTasks, bulkTask,
                   customMinted, srs>>

\* Layout's onChangeView = setCurrentView
onChangeView(view) ==
    /\ Use("view", MaxViews)
    /\ view # currentView
    /\ Render(appState, pendingQueue, worker, view, studyQueue, currentCardIndex,
              LoadState, TRUE)
    /\ UNCHANGED <<build, now, stored, pendingSaves, sessionComplete, timers,
                   imageTasks, bulkTask, customMinted, srs>>

\* --------------------------------------------------------------- grading
\* the Flashcard footer buttons: setTimeout(() => onNext(isCorrect), 300).
\* onNext is the handleCardNext of the render that drew the card, so the
\* callback keeps that render's appState, studyQueue and currentCardIndex
clickOnNext(isCorrect) ==
    /\ Use("click", MaxClicks)
    /\ FlashcardShown
    /\ timers' = Append(timers,
                        [isCorrect |-> isCorrect,
                         appState |-> appState,
                         currentWord |-> studyQueue[currentCardIndex + 1],
                         advance |-> (currentCardIndex < Len(studyQueue) - 1)])
    /\ UNCHANGED <<build, now, appState, stored, pendingSaves, currentView,
                   studyQueue, currentCardIndex, sessionComplete, isLoadingWord,
                   pendingQueue, worker, loads, imageTasks, bulkTask, customMinted,
                   srs>>

\* newState of handleCardNext in part_002, for the callback c fired at time t
handleCardNext(c, t) ==
    LET currentWord == c.currentWord
        newBox == IF c.isCorrect THEN 5 ELSE 1
        nextReview == IF c.isCorrect THEN t + 30 * DaySecs ELSE t + DaySecs
        uniqueIncrement == IF currentWord.leitnerBox = 0 THEN 1 ELSE 0
        isMastered == newBox >= 5
        updatedWords == [i \in DOMAIN c.appState.words |->
            IF c.appState.words[i].id = currentWord.id
            THEN [c.appState.words[i] EXCEPT !.leitnerBox = newBox,
                                             !.nextReviewDate = nextReview,
                                             !.mastered = isMastered,
                                             !.lastReview = t]
            ELSE c.appState.words[i]]
    IN  [c.appState EXCEPT !.words = updatedWords,
                           !.dailyProgress = @ + 1,
                           !.dailyUniqueProgress = @ + uniqueIncrement]

handleCardNextAppNoDemotion(c, t) ==
    LET currentWord == c.currentWord
        r == calculateNextReview(currentWord.leitnerBox, c.isCorrect, t)
        updatedWords == [i \in DOMAIN c.appState.words |->
            IF c.appState.words[i].id = currentWord.id
            THEN [c.appState.words[i] EXCEPT !.leitnerBox = r.box,
                                             !.nextReviewDate = r.nextReview,
                                             !.mastered = (@ \/ r.box >= 5),
                                             !.lastReview = t]
            ELSE c.appState.words[i]]
    IN  [c.appState EXCEPT !.words = updatedWords,
                           !.dailyProgress = @ + 1]

\* newState of handleCardNext in App.tsx
handleCardNextApp(c, t) ==
    LET currentWord == c.currentWord
        r == calculateNextReview(currentWord.leitnerBox, c.isCorrect, t)
        isMastered == r.box >= 5
        updatedWords == [i \in DOMAIN c.appState.words |->
            IF c.appState.words[i].id = currentWord.id
            THEN [c.appState.words[i] EXCEPT !.leitnerBox = r.box,
                                             !.nextReviewDate = r.nextReview,
                                             !.mastered = isMastered,
                                             !.lastReview = t]
            ELSE c.appState.words[i]]
    IN  [c.appState EXCEPT !.words = updatedWords,
                           !.dailyProgress = @ + 1]

\* the oldest timer fires: handleCardNext runs to its end (the awaited
\* saveStoredState resolves without waiting for the store)
fireOnNext ==
    /\ timers # <<>>
    /\ LET c == Head(timers)
           newState == IF build = "part_002" THEN handleCardNext(c, now)
                       ELSE handleCardNextApp(c, now)
       IN  /\ saveStoredState(newState)
           /\ Render(newState, pendingQueue, worker, currentView, studyQueue,
                     IF c.advance THEN currentCardIndex + 1 ELSE currentCardIndex,
                     LoadState, c.advance)
           /\ sessionComplete' = (IF c.advance THEN sessionComplete ELSE TRUE)
    /\ timers' = Tail(timers)
    /\ UNCHANGED <<used, build, now, stored, imageTasks, bulkTask, customMinted, srs>>

\* ------------------------------------------------- mnemonic and image
handleMnemonicUpdate(id, mnemonic) ==
    /\ UseAux("mnemonic")
    /\ FlashcardShown
    /\ id = studyQueue[currentCardIndex + 1].id
    /\ LET updatedWords == [i \in DOMAIN appState.words |->
               IF appState.words[i].id = id
               THEN [appState.words[i] EXCEPT !.userMnemonic = mnemonic]
               ELSE appState.words[i]]
           newState == [appState EXCEPT !.words = updatedWords]
       IN  /\ saveStoredState(newState)
           /\ Render(newState, pendingQueue, worker, currentView, studyQueue,
                     currentCardIndex, LoadState, FALSE)
    /\ UNCHANGED <<build, now, stored, sessionComplete, timers, imageTasks,
                   bulkTask, customMinted, srs>>

\* Flashcard.handleGenerateImage up to its await; onUpdateImage is the
\* handleImageUpdate of the render that drew the card
handleGenerateImage ==
    /\ UseAux("image")
    /\ FlashcardShown
    /\ LET id == studyQueue[currentCardIndex + 1].id
       IN  /\ \A k \in BagToSet(imageTasks) : k.id # id
           /\ imageTasks' = imageTasks (+) SetToBag({[id |-> id, appState |-> appState]})
    /\ UNCHANGED <<build, now, appState, stored, pendingSaves, currentView,
                   studyQueue, currentCardIndex, sessionComplete, isLoadingWord,
                   pendingQueue, worker, loads, timers, bulkTask, customMinted, srs>>

\* newState of handleImageUpdate run with the app state doc
handleImageUpdate(doc, id, base64) ==
    [doc EXCEPT !.words = [i \in DOMAIN doc.words |->
        IF doc.words[i].id = id THEN [doc.words[i] EXCEPT !.aiImageUrl = base64]
        ELSE doc.words[i]]]

\* generateWordImage resolves with an image, or with null
generateImageDone(k, imageBase64) ==
    /\ k \in BagToSet(imageTasks)
    /\ imageTasks' = imageTasks (-) SetToBag({k})
    /\ IF imageBase64 # ""
       THEN LET newState == handleImageUpdate(k.appState, k.id, imageBase64)
            IN  /\ saveStoredState(newState)
                /\ Render(newState, pendingQueue, worker, currentView, studyQueue,
                          currentCardIndex, LoadState, FALSE)
       ELSE UNCHANGED <<appState, pendingSaves, currentView, studyQueue,
                        currentCardIndex, isLoadingWord, pendingQueue, worker, loads>>
    /\ UNCHANGED <<used, build, now, stored, sessionComplete, timers, bulkTask,
                   customMinted, srs>>

\* ------------------------------------------------------------ enrichment
\* an updater that adds the enriched word when no item has its id
processNextMergeUpsert(prev, task, details) ==
    LET updatedWord == Spread(task.wordToFetch, details)
    IN  IF FindIndex(prev.words, task.nextId) = {}
        THEN [prev EXCEPT !.words = Append(@, updatedWord)]
        ELSE [prev EXCEPT !.words = MapReplace(prev.words, task.nextId, updatedWord)]

\* the document processNext's setAppState updater returns
processNextMerge(prev, task, details) ==
    LET updatedWord == Spread(task.wordToFetch, details)
    IN  [prev EXCEPT !.words = MapReplace(prev.words, task.nextId, updatedWord)]

\* the background fetch resolves: try block, then finally
processNextDone(details) ==
    /\ worker # <<>>
    /\ LET task == worker[1]
           updatedWord == Spread(task.wordToFetch, details)
           newState == processNextMerge(appState, task, details)
       IN  /\ saveStoredState(newState)
           /\ Render(newState, Tail(pendingQueue), <<>>, currentView,
                     MapReplace(studyQueue, task.nextId, updatedWord),
                     currentCardIndex, LoadState, TRUE)
    /\ UNCHANGED <<used, build, now, stored, sessionComplete, timers, imageTasks,
                   bulkTask, customMinted, srs>>

\* a finally block that clears isProcessingQueue and leaves the queue as it
\* is: no state changes, so the worker effect does not run again
processNextFailedNoSlice ==
    /\ worker # <<>>
    /\ worker' = <<>>
    /\ UNCHANGED <<used, build, now, appState, stored, pendingSaves, currentView,
                   studyQueue, currentCardIndex, sessionComplete, isLoadingWord,
                   pendingQueue, loads, timers, imageTasks, bulkTask, customMinted,
                   srs>>

\* a catch block that puts the failed id back at the end of the queue
processNextFailedRequeue ==
    /\ worker # <<>>
    /\ Render(appState, Append(Tail(pendingQueue), worker[1].nextId), <<>>,
              currentView, studyQueue, currentCardIndex, LoadState, FALSE)
    /\ UNCHANGED <<used, build, now, stored, pendingSaves, sessionComplete, timers,
                   imageTasks, bulkTask, customMinted, srs>>

\* the background fetch rejects: catch, then finally
processNextFailed ==
    /\ worker # <<>>
    /\ Render(appState, Tail(pendingQueue), <<>>, currentView, studyQueue,
              currentCardIndex, LoadState, FALSE)
    /\ UNCHANGED <<used, build, now, stored, pendingSaves, sessionComplete, timers,
                   imageTasks, bulkTask, customMinted, srs>>

\* the document loadCard's setAppState updater returns
loadCardMerge(prev, task, details) ==
    LET updatedWord == Spread(task.word, details)
    IN  [prev EXCEPT !.words = MapReplace(prev.words, task.word.id, updatedWord)]

\* the queue loadCard's setStudyQueue updater returns
loadCardQueue(prev, task, details) ==
    IF task.index < Len(prev) /\ prev[task.index + 1].id = task.word.id
    THEN [prev EXCEPT ![task.index + 1] = Spread(task.word, details)]
    ELSE prev

\* a loadCard fetch resolves: try block, then finally
loadCardDone(task, details) ==
    /\ task \in BagToSet(loads)
    /\ LET newState == loadCardMerge(appState, task, details)
       IN  /\ saveStoredState(newState)
           /\ Render(newState, pendingQueue, worker, currentView,
                     loadCardQueue(studyQueue, task, details), currentCardIndex,
                     [loads |-> loads (-) SetToBag({task}),
                      isLoadingWord |-> IF task.current THEN FALSE ELSE isLoadingWord],
                     TRUE)
    /\ UNCHANGED <<used, build, now, stored, sessionComplete, timers, imageTasks,
                   bulkTask, customMinted, srs>>

\* a catch block with no finally after it: the loading flag stays as it is
loadCardFailedNoFinally(task) ==
    /\ task \in BagToSet(loads)
    /\ loads' = loads (-) SetToBag({task})
    /\ UNCHANGED <<used, build, now, appState, stored, pendingSaves, currentView,
                   studyQueue, currentCardIndex, sessionComplete, isLoadingWord,
                   pendingQueue, worker, timers, imageTasks, bulkTask, customMinted,
                   srs>>

\* a loadCard fetch rejects: catch, then finally
loadCardFailed(task) ==
    /\ task \in BagToSet(loads)
    /\ loads' = loads (-) SetToBag({task})
    /\ isLoadingWord' = (IF task.current THEN FALSE ELSE isLoadingWord)
    /\ UNCHANGED <<used, build, now, appState, stored, pendingSaves, currentView,
                   studyQueue, currentCardIndex, sessionComplete, pendingQueue,
                   worker, timers, imageTasks, bulkTask, customMinted, srs>>

\* -------------------------------------------------------------- bulk add
\* the texts typed into the add-words box, after split, trim and Set
BulkInputs == {<<"Ab">>, <<"ef", "Ab">>}

\* wordIndexMap.get(wordLower): the Map keeps the last index of a key
IndexOfWord(words, wordLower) ==
    LET hits == {i \in DOMAIN words : toLowerCase(words[i].word) = wordLower}
    IN  IF hits = {} THEN 0 ELSE CHOOSE i \in hits : \A j \in hits : j <= i

NewCustomWord(wordStr, n) ==
    [id |-> <<"custom", n>>,
     word |-> wordStr,
     definitions |-> 0,
     mastered |-> FALSE,
     leitnerBox |-> 0,
     nextReviewDate |-> 0,
     lastReview |-> 0,
     userMnemonic |-> "",
     aiImageUrl |-> "",
     isCustom |-> TRUE]

\* the for loop of handleBulkAddWords over uniqueInputs.  inline = FALSE is
\* part_002 (ids are collected for the queue); inline = TRUE is App.tsx (the
\* fetch is awaited in the loop, outcomes[i] = {} when it rejects and
\* {details} when it resolves)
RECURSIVE BulkLoop(_, _, _, _, _, _)
BulkLoop(acc, inputs, k, fetchNow, inline, outcomes) ==
    IF k > Len(inputs) THEN acc
    ELSE LET wordStr == inputs[k]
             index == IndexOfWord(acc.words, toLowerCase(wordStr))
             isNew == index = 0
             wordData0 == IF isNew THEN NewCustomWord(wordStr, acc.minted + 1)
                          ELSE [acc.words[index] EXCEPT !.isCustom = TRUE]
             wants == fetchNow /\ wordData0.definitions = 0
             wordData == IF inline /\ wants /\ outcomes[k] # {}
                         THEN Spread(wordData0, CHOOSE d \in outcomes[k] : TRUE)
                         ELSE wordData0
         IN  BulkLoop([words |-> IF isNew THEN Append(acc.words, wordData)
                                 ELSE [acc.words EXCEPT ![index] = wordData],
                       idsToQueue |-> IF ~inline /\ wants
                                      THEN Append(acc.idsToQueue, wordData.id)
                                      ELSE acc.idsToQueue,
                       minted |-> IF isNew THEN acc.minted + 1 ELSE acc.minted,
                       awaits |-> IF inline /\ wants THEN acc.awaits + 1 ELSE acc.awaits],
                      inputs, k + 1, fetchNow, inline, outcomes)

BulkStart(doc) == [words |-> doc.words, idsToQueue |-> <<>>, minted |-> customMinted,
                   awaits |-> 0]

\* handleBulkAddWords of part_002
handleBulkAddWords(inputs, fetchImmediately) ==
    /\ UseAux("bulk")
    /\ build = "part_002"
    /\ DashboardShown
    /\ LET r == BulkLoop(BulkStart(appState), inputs, 1, fetchImmediately, FALSE, <<>>)
           newState == [appState EXCEPT !.words = r.words]
       IN  /\ r.minted <= MaxCustom
           /\ customMinted' = r.minted
           /\ saveStoredState(newState)
           /\ Render(newState, AppendUnique(pendingQueue, r.idsToQueue), worker,
                     currentView, studyQueue, currentCardIndex, LoadState, FALSE)
    /\ UNCHANGED <<build, now, stored, sessionComplete, timers, imageTasks,
                   bulkTask, srs>>

NoOutcomes(inputs) == [i \in DOMAIN inputs |-> {}]

\* handleBulkAddWords of App.tsx up to its first await; with nothing to
\* fetch it runs to its end
handleBulkAddWordsApp(inputs, fetchImmediately) ==
    /\ UseAux("bulk")
    /\ build = "App"
    /\ DashboardShown
    /\ bulkTask = <<>>
    /\ LET r == BulkLoop(BulkStart(appState), inputs, 1, fetchImmediately, TRUE,
                         NoOutcomes(inputs))
           newState == [appState EXCEPT !.words = r.words]
       IN  /\ r.minted <= MaxCustom
           /\ IF r.awaits > 0
              THEN /\ bulkTask' = << [appState |-> appState, inputs |-> inputs] >>
                   /\ UNCHANGED <<appState, pendingSaves, currentView, studyQueue,
                                  currentCardIndex, isLoadingWord, pendingQueue,
                                  worker, loads, customMinted>>
              ELSE /\ bulkTask' = bulkTask
                   /\ customMinted' = r.minted
                   /\ saveStoredState(newState)
                   /\ Render(newState, pendingQueue, worker, currentView, studyQueue,
                             currentCardIndex, LoadState, FALSE)
    /\ UNCHANGED <<build, now, stored, sessionComplete, timers, imageTasks, srs>>

FetchOutcomes == {{}} \cup {{d} : d \in ProviderResponses}

\* the awaited fetches of the App.tsx loop have settled: the handler writes
\* the words it built from the app state it started with
bulkAddDone(outcomes) ==
    /\ bulkTask # <<>>
    /\ LET task == bulkTask[1]
           r == BulkLoop(BulkStart(task.appState), task.inputs, 1, TRUE, TRUE, outcomes)
           newState == [task.appState EXCEPT !.words = r.words]
       IN  /\ outcomes \in [DOMAIN task.inputs -> FetchOutcomes]
           /\ customMinted' = r.minted
           /\ saveStoredState(newState)
           /\ Render(newState, pendingQueue, worker, currentView, studyQueue,
                     currentCardIndex, LoadState, FALSE)
    /\ bulkTask' = <<>>
    /\ UNCHANGED <<used, build, now, stored, sessionComplete, timers, imageTasks, srs>>

\* handleSmartReshuffle of part_002, the confirm dialog answered yes
handleSmartReshuffle ==
    /\ UseAux("reshuffle")
    /\ build = "part_002"
    /\ DashboardShown
    /\ LET seedWords == SelectSeq(appState.words, LAMBDA w : startsWithSeed(w.id))
           customWords == SelectSeq(appState.words, LAMBDA w : ~startsWithSeed(w.id))
           startedSeeds == SelectSeq(seedWords, LAMBDA w : w.mastered \/ w.leitnerBox > 0)
           unstartedSeeds == SelectSeq(seedWords,
                                       LAMBDA w : ~w.mastered /\ w.leitnerBox = 0)
       IN  /\ seedWords # <<>>
           /\ \E p \in PermsOf(Len(unstartedSeeds)) :
                 LET shuffledUnstarted == [i \in DOMAIN unstartedSeeds |->
                                              unstartedSeeds[p[i]]]
                     newState == [appState EXCEPT !.words =
                                     startedSeeds \o shuffledUnstarted \o customWords]
                 IN  /\ saveStoredState(newState)
                     /\ Render(newState, pendingQueue, worker, currentView, studyQueue,
                               currentCardIndex, LoadState, FALSE)
    /\ UNCHANGED <<build, now, stored, sessionComplete, timers, imageTasks,
                   bulkTask, customMinted, srs>>

\* ---------------------------------------------------------------- import
\* a backup made by handleExportData on another day
BackupDoc ==
    [seedInitialData(DEFAULT_STATE) EXCEPT !.streak = 3, !.dailyProgress = 7]

\* the files the user can pick: text that is no JSON, and JSON objects
\* without words, without streak, and with both
ImportFiles ==
    { [text |-> "not json"],
      [json |-> [streak |-> 3, dailyProgress |-> 7, dailyUniqueProgress |-> 0]],
      [json |-> [words |-> BackupDoc.words, dailyProgress |-> 7,
                 dailyUniqueProgress |-> 0]],
      [json |-> BackupDoc] }

\* the try block reaches window.confirm: JSON.parse does not throw, and
\* neither does the check of App.tsx nor parsedData.words.length of part_002
ImportParsed(file) ==
    /\ "json" \in DOMAIN file
    /\ "words" \in DOMAIN file.json
    /\ build = "App" => "streak" \in DOMAIN file.json

handleImportDataUnasked(file, confirmLoad) ==
    /\ Use("import", MaxImports)
    /\ DashboardShown
    /\ IF ImportParsed(file)
       THEN /\ saveStoredState(file.json)
            /\ Render(file.json, pendingQueue, worker, currentView, studyQueue,
                      currentCardIndex, LoadState, FALSE)
       ELSE UNCHANGED <<appState, pendingSaves, currentView, studyQueue,
                        currentCardIndex, isLoadingWord, pendingQueue, worker, loads>>
    /\ UNCHANGED <<build, now, stored, sessionComplete, timers, imageTasks,
                   bulkTask, customMinted, srs>>

\* fileReader.onload of handleImportData
handleImportData(file, confirmLoad) ==
    /\ Use("import", MaxImports)
    /\ DashboardShown
    /\ IF ImportParsed(file) /\ confirmLoad
       THEN /\ saveStoredState(file.json)
            /\ Render(file.json, pendingQueue, worker, currentView, studyQueue,
                      currentCardIndex, LoadState, FALSE)
       ELSE UNCHANGED <<appState, pendingSaves, currentView, studyQueue,
                        currentCardIndex, isLoadingWord, pendingQueue, worker, loads>>
    /\ UNCHANGED <<build, now, stored, sessionComplete, timers, imageTasks,
                   bulkTask, customMinted, srs>>

\* ------------------------------------------------------------------ init
\* the documents getStoredState can resolve with: the seeded default of a
\* fresh store, or what earlier runs left (the first word graded to mastery
\* while its fetch kept failing and then typed into a bulk add, which marked
\* it custom; the second word enriched and studied up to box 4)
Studied(w, box, defs) ==
    [w EXCEPT !.definitions = defs,
              !.leitnerBox = box,
              !.mastered = (box >= 5),
              !.lastReview = StartNow - INTERVALS[box + 1] * DaySecs,
              !.nextReviewDate = StartNow]

LoadedStates ==
    LET seeded == seedInitialData(DEFAULT_STATE)
    IN  {seeded,
         [seeded EXCEPT !.words =
             <<[Studied(seeded.words[1], 5, 0) EXCEPT !.isCustom = TRUE],
               Studied(seeded.words[2], 4, 1)>>]}

\* customWordsNeedingFetch of part_002's init
customWordsNeedingFetch(doc) ==
    LET need == SelectSeq(doc.words,
                    LAMBDA w : (w.isCustom \/ startsWithCustom(w.id)) /\ w.definitions = 0)
    IN  [i \in DOMAIN need |-> need[i].id]

NoneUsed ==
    [k \in {"session", "view", "click", "tick", "mnemonic", "image", "bulk", "reshuffle",
             "fail", "import"} |-> 0]

NoCall == [currentBox |-> 0, isCorrect |-> FALSE, t |-> 0, result |-> <<>>]

\* the state once init() has run
Init ==
    /\ build \in {"part_002", "App"}
    /\ now = StartNow
    /\ appState \in LoadedStates
    /\ stored = appState
    /\ pendingSaves = <<>>
    /\ currentView = "DASHBOARD"
    /\ studyQueue = <<>>
    /\ currentCardIndex = 0
    /\ sessionComplete = FALSE
    /\ isLoadingWord = FALSE
    /\ LET we == WorkerEffect(appState,
                              IF build = "part_002"
                              THEN AppendUnique(<<>>, customWordsNeedingFetch(appState))
                              ELSE <<>>,
                              <<>>)
       IN  /\ pendingQueue = we.pendingQueue
           /\ worker = we.worker
    /\ loads = EmptyBag
    /\ timers = <<>>
    /\ imageTasks = EmptyBag
    /\ bulkTask = <<>>
    /\ customMinted = 0
    /\ used = NoneUsed
    /\ srs = NoCall

Mnemonics == {"m"}

Next ==
    \/ Tick
    \/ storePut
    \/ storePutFailed
    \/ \E c \in BOOLEAN : startSetSession(0, c)
    \/ startReviewSession
    \/ \E type \in {"mastered", "learning", "custom"},
          sort \in {"random", "newest", "oldest"} : startCustomSession(type, sort)
    \/ \E i \in 1 .. Len(appState.words) : libraryStudy(i)
    \/ \E view \in {"DASHBOARD", "STUDY"} : onChangeView(view)
    \/ \E isCorrect \in BOOLEAN : clickOnNext(isCorrect)
    \/ fireOnNext
    \/ \E m \in Mnemonics : handleMnemonicUpdate(studyQueue[currentCardIndex + 1].id, m)
    \/ handleGenerateImage
    \/ \E k \in BagToSet(imageTasks), img \in {"", "img"} : generateImageDone(k, img)
    \/ \E d \in ProviderResponses : processNextDone(d)
    \/ processNextFailed
    \/ \E task \in BagToSet(loads), d \in ProviderResponses : loadCardDone(task, d)
    \/ \E task \in BagToSet(loads) : loadCardFailed(task)
    \/ \E inputs \in BulkInputs, f \in BOOLEAN : handleBulkAddWords(inputs, f)
    \/ \E inputs \in BulkInputs, f \in BOOLEAN : handleBulkAddWordsApp(inputs, f)
    \/ \E o \in UNION {[1 .. n -> FetchOutcomes] : n \in 1 .. 2} : bulkAddDone(o)
    \/ handleSmartReshuffle
    \/ \E file \in ImportFiles, c \in BOOLEAN : handleImportData(file, c)

Spec == Init /\ [][Next]_vars

\* ---------------------------------------------- calculateNextReview alone
SrsTimes == {StartNow + k * DaySecs : k \in 0 .. 4}

InitSRS ==
    /\ build = "App"
    /\ now = StartNow
    /\ appState = seedInitialData(DEFAULT_STATE)
    /\ stored = appState
    /\ pendingSaves = <<>>
    /\ currentView = "DASHBOARD"
    /\ studyQueue = <<>>
    /\ currentCardIndex = 0
    /\ sessionComplete = FALSE
    /\ isLoadingWord = FALSE
    /\ pendingQueue = <<>>
    /\ worker = <<>>
    /\ loads = EmptyBag
    /\ timers = <<>>
    /\ imageTasks = EmptyBag
    /\ bulkTask = <<>>
    /\ customMinted = 0
    /\ used = NoneUsed
    /\ srs \in [currentBox : 0 .. 5, isCorrect : BOOLEAN, t : SrsTimes, result : {<<>>}]

callCalculateNextReview ==
    /\ srs.result = <<>>
    /\ srs' = [srs EXCEPT !.result =
                  <<calculateNextReview(srs.currentBox, srs.isCorrect, srs.t)>>]
    /\ UNCHANGED <<used, build, now, appState, stored, pendingSaves, currentView,
                   studyQueue, currentCardIndex, sessionComplete, isLoadingWord,
                   pendingQueue, worker, loads, timers, imageTasks, bulkTask,
                   customMinted, used>>

NextSRS == callCalculateNextReview

SpecSRS == InitSRS /\ [][NextSRS]_vars

\* the App at rest, while a function of srs.ts or db.ts is called on its own
AppAtRest ==
    /\ build = "App"
    /\ now = StartNow
    /\ currentView = "DASHBOARD"
    /\ studyQueue = <<>>
    /\ currentCardIndex = 0
    /\ sessionComplete = FALSE
    /\ isLoadingWord = FALSE
    /\ pendingQueue = <<>>
    /\ worker = <<>>
    /\ loads = EmptyBag
    /\ timers = <<>>
    /\ imageTasks = EmptyBag
    /\ bulkTask = <<>>
    /\ customMinted = 0
    /\ used = NoneUsed

UnchangedApp ==
    UNCHANGED <<build, now, appState, stored, pendingSaves, currentView, studyQueue,
                currentCardIndex, sessionComplete, isLoadingWord, pendingQueue,
                worker, loads, timers, imageTasks, bulkTask, customMinted, used>>

\* -------------------------------------------- the streak logic of init
MaxDays == 3
MaxRuns == 3
MaxStudied == 2

\* new Date(t).toDateString(): the calendar day of t, as a one-element
\* sequence; the empty sequence is the lastLoginDate '' of DEFAULT_STATE
toDateString(t) == <<t \div DaySecs>>

\* the fields of the stored document that init's streak logic reads
FreshLogin == [streak |-> DEFAULT_STATE.streak,
               lastLoginDate |-> <<>>,
               dailyProgress |-> DEFAULT_STATE.dailyProgress,
               dailyUniqueProgress |-> DEFAULT_STATE.dailyUniqueProgress]

\* a streak logic that counts every new day as a day in a row
initCountingEveryDay(b, loadedState, t) ==
    LET today == toDateString(t)
    IN  IF loadedState.lastLoginDate # today
        THEN [loadedState EXCEPT !.lastLoginDate = today,
                                 !.streak = @ + 1,
                                 !.dailyProgress = 0,
                                 !.dailyUniqueProgress = IF b = "part_002" THEN 0 ELSE @]
        ELSE loadedState

\* newState of init in build b, run at time t on the loaded state
init(b, loadedState, t) ==
    LET today == toDateString(t)
        yesterday == toDateString(t - DaySecs)
        newStreak ==
            IF loadedState.lastLoginDate = yesterday THEN loadedState.streak + 1
            ELSE IF loadedState.lastLoginDate # <<>> /\ loadedState.lastLoginDate # today
                 THEN 1
            ELSE IF loadedState.lastLoginDate = <<>> THEN 1
            ELSE loadedState.streak
    IN  IF loadedState.lastLoginDate # today
        THEN [loadedState EXCEPT !.lastLoginDate = today,
                                 !.streak = newStreak,
                                 !.dailyProgress = 0,
                                 !.dailyUniqueProgress = IF b = "part_002" THEN 0 ELSE @]
        ELSE loadedState

\* the App at rest in either build; srs holds the stored login fields, the
\* clock and the number of start-ups
InitStreak ==
    /\ build \in {"part_002", "App"}
    /\ now = StartNow
    /\ appState = seedInitialData(DEFAULT_STATE)
    /\ stored = appState
    /\ pendingSaves = <<>>
    /\ currentView = "DASHBOARD"
    /\ studyQueue = <<>>
    /\ currentCardIndex = 0
    /\ sessionComplete = FALSE
    /\ isLoadingWord = FALSE
    /\ pendingQueue = <<>>
    /\ worker = <<>>
    /\ loads = EmptyBag
    /\ timers = <<>>
    /\ imageTasks = EmptyBag
    /\ bulkTask = <<>>
    /\ customMinted = 0
    /\ used = NoneUsed
    /\ srs = [loadedState |-> FreshLogin, t |-> StartNow, runs |-> 0]

\* the App starts: init runs and its newState is what the next start loads
callInit ==
    /\ srs.runs < MaxRuns
    /\ srs' = [srs EXCEPT !.loadedState = init(build, @, srs.t), !.runs = @ + 1]
    /\ UnchangedApp

\* a grade between two starts: handleCardNext counts it, as a first grade
\* of its word or not (part_002 alone has dailyUniqueProgress)
gradeCounted(uniqueIncrement) ==
    /\ srs.runs > 0
    /\ srs.loadedState.dailyProgress < MaxStudied
    /\ build = "App" => uniqueIncrement = 0
    /\ srs' = [srs EXCEPT !.loadedState.dailyProgress = @ + 1,
                          !.loadedState.dailyUniqueProgress = @ + uniqueIncrement]
    /\ UnchangedApp

\* midnight passes, once or twice
midnights(days) ==
    /\ srs.t + days * DaySecs <= StartNow + MaxDays * DaySecs
    /\ srs' = [srs EXCEPT !.t = @ + days * DaySecs]
    /\ UnchangedApp

NextStreak ==
    \/ callInit
    \/ \E u \in 0 .. 1 : gradeCounted(u)
    \/ \E days \in 1 .. 2 : midnights(days)

SpecStreak == InitStreak /\ [][NextStreak]_vars

\* ------------------------------------------- the background worker alone
\* part_002 with its queue fed by init and by bulk adds, a backup import
\* removing words; every fetch of the worker settles
InitWorker ==
    /\ Init
    /\ build = "part_002"

FetchSettles == processNextFailed \/ \E d \in ProviderResponses : processNextDone(d)

NextWorker ==
    \/ storePut
    \/ \E inputs \in BulkInputs, f \in BOOLEAN : handleBulkAddWords(inputs, f)
    \/ \E file \in ImportFiles, c \in BOOLEAN : handleImportData(file, c)
    \/ \E d \in ProviderResponses : processNextDone(d)
    \/ processNextFailed

SpecWorker == InitWorker /\ [][NextWorker]_vars /\ WF_vars(FetchSettles)

\* ------------------------------------------------ startSetSession alone
MaxSetIndex == 2
MaxVaried == 4

\* two seeded words more than one set holds
SeedCount == WORDS_PER_SET + 2

SetKinds == {"new", "learning", "mastered"}

\* the i-th seeded word, never studied, or studied up to box 2 or to box 5
SetSeed(i, kind) ==
    LET w == [SeedWord(0) EXCEPT !.id = <<"seed", i>>, !.word = "w" \o ToString(i)]
    IN  IF kind = "new" THEN w
        ELSE IF kind = "learning" THEN Studied(w, 2, 1)
        ELSE Studied(w, 5, 1)

\* documents of SeedCount seeded words and one custom word, which was added
\* before the last seeded words were (seedInitialData appends the words new
\* to INITIAL_WORDS_LIST) or after them
SetDocs ==
    {[DEFAULT_STATE EXCEPT !.words =
         LET seeds == [n \in 1 .. SeedCount |->
                          SetSeed(n - 1, IF n <= SeedCount - MaxVaried THEN k0
                                         ELSE ks[SeedCount - n + 1])]
         IN  SubSeq(seeds, 1, p) \o <<NewCustomWord("zz", 1)>>
                \o SubSeq(seeds, p + 1, SeedCount)] :
        k0 \in SetKinds, ks \in [1 .. MaxVaried -> SetKinds],
        p \in {WORDS_PER_SET - 1, SeedCount}}

InitSet ==
    /\ AppAtRest
    /\ appState \in SetDocs
    /\ stored = appState
    /\ pendingSaves = <<>>
    /\ srs = NoCall

NextSet == \E setIndex \in 0 .. MaxSetIndex, c \in BOOLEAN : startSetSession(setIndex, c)

SpecSet == InitSet /\ [][NextSet]_vars

\* nextReviewDate unset (0), in the past, now, in the future
DueDates == {0, StartNow - DaySecs, StartNow, StartNow + DaySecs}

DueWords == [mastered : BOOLEAN, leitnerBox : 0 .. 5, nextReviewDate : DueDates]

InitDue ==
    /\ AppAtRest
    /\ appState = seedInitialData(DEFAULT_STATE)
    /\ stored = appState
    /\ pendingSaves = <<>>
    /\ srs \in [word : DueWords, t : {StartNow, StartNow + DaySecs}, result : {<<>>}]

callIsDueForReview ==
    /\ srs.result = <<>>
    /\ srs' = [srs EXCEPT !.result = <<isDueForReview(srs.word, srs.t)>>]
    /\ UNCHANGED <<build, now, appState, stored, pendingSaves, currentView,
                   studyQueue, currentCardIndex, sessionComplete, isLoadingWord,
                   pendingQueue, worker, loads, timers, imageTasks, bulkTask,
                   customMinted, used>>

NextDue == callIsDueForReview

SpecDue == InitDue /\ [][NextDue]_vars

\* ------------------------------------------------- getReviewQueue alone
\* the words of a collection: new, due, scheduled ahead, mastered
QueueWord(i, kind) ==
    [id |-> <<"seed", i>>,
     mastered |-> (kind = "mastered"),
     leitnerBox |-> (IF kind = "new" THEN 0 ELSE IF kind = "mastered" THEN 5 ELSE 2),
     nextReviewDate |-> (IF kind = "new" THEN 0
                         ELSE IF kind = "due" THEN StartNow - DaySecs
                         ELSE StartNow + 3 * DaySecs)]

QueueKinds == {"new", "due", "ahead", "mastered"}

\* the collections of up to MaxDeck words, ids distinct, in every order
QueueInputs ==
    UNION {{[i \in 1 .. n |-> QueueWord(ids[i], kinds[i])] :
               ids \in {f \in [1 .. n -> 0 .. MaxDeck - 1] :
                           \A i, j \in 1 .. n : f[i] = f[j] => i = j},
               kinds \in [1 .. n -> QueueKinds]} : n \in 0 .. MaxDeck}

InitQueue ==
    /\ AppAtRest
    /\ appState = seedInitialData(DEFAULT_STATE)
    /\ stored = appState
    /\ pendingSaves = <<>>
    /\ srs \in [words : QueueInputs, t : {StartNow}, result : {<<>>}]

callGetReviewQueue ==
    /\ srs.result = <<>>
    /\ srs' = [srs EXCEPT !.result = <<getReviewQueue(srs.words, srs.t)>>]
    /\ UNCHANGED <<build, now, appState, stored, pendingSaves, currentView,
                   studyQueue, currentCardIndex, sessionComplete, isLoadingWord,
                   pendingQueue, worker, loads, timers, imageTasks, bulkTask,
                   customMinted, used>>

NextQueue == callGetReviewQueue

SpecQueue == InitQueue /\ [][NextQueue]_vars

\* ------------------------------------------- saveStoredState / getStoredState
\* getRequest.result of an object store without the record 'root'
NoRecord == <<>>

\* the documents handed to saveStoredState
DbDocs == {[d EXCEPT !.dailyProgress = p] : d \in LoadedStates, p \in 0 .. MaxDbProgress}

InitDB ==
    /\ AppAtRest
    /\ appState = seedInitialData(DEFAULT_STATE)
    /\ stored \in {NoRecord} \cup LoadedStates
    /\ pendingSaves = <<>>
    /\ srs = [saved |-> <<>>, result |-> <<>>]

\* a caller's saveStoredState(state) returns
callSaveStoredState(state) ==
    /\ saveStoredState(state)
    /\ srs' = [saved |-> <<state>>, result |-> <<>>]
    /\ UNCHANGED <<build, now, appState, stored, currentView, studyQueue,
                   currentCardIndex, sessionComplete, isLoadingWord, pendingQueue,
                   worker, loads, timers, imageTasks, bulkTask, customMinted, used>>

\* getStoredState resolves. Its readonly transaction is created after the
\* readwrite transactions of the saves called before it (open requests are
\* served in order), so it reads once those have committed or failed
getStoredState ==
    /\ pendingSaves = <<>>
    /\ IF stored = NoRecord
       THEN LET seededState == seedInitialData(DEFAULT_STATE)
            IN  /\ saveStoredState(seededState)
                /\ srs' = [srs EXCEPT !.result = <<seededState>>]
       ELSE /\ srs' = [srs EXCEPT !.result = <<stored>>]
            /\ UNCHANGED pendingSaves
    /\ UNCHANGED <<build, now, appState, stored, currentView, studyQueue,
                   currentCardIndex, sessionComplete, isLoadingWord, pendingQueue,
                   worker, loads, timers, imageTasks, bulkTask, customMinted, used>>

NextDB ==
    \/ \E state \in DbDocs : callSaveStoredState(state)
    \/ storePut
    \/ storePutFailed
    \/ getStoredState

SpecDB == InitDB /\ [][NextDB]_vars

\* --------------------------------------- retry around fetchWordDetails
\* the defaults of retry(fn, retries = 3, delay = 1000)
RETRIES == 3
DELAY == 1000

\* what an attempt can throw: the request fails, or the text is no JSON
FetchErrors == {"network", "parse"}

\* the call retry(fn) as fetchWordDetails makes it: attempts counts the
\* calls of fn, delays lists the timeouts waited, errors what fn threw
NewRetry ==
    [phase |-> "call", retries |-> RETRIES, delay |-> DELAY, attempts |-> 0,
     delays |-> <<>>, errors |-> <<>>, value |-> <<>>]

retryCatchFixedDelay(call, error) ==
    IF call.retries <= 0
    THEN [call EXCEPT !.phase = "rejected", !.errors = Append(@, error)]
    ELSE [call EXCEPT !.phase = "wait", !.errors = Append(@, error),
                      !.delays = Append(@, DELAY)]

\* the catch block of retry: rethrow, or start the timeout
retryCatch(call, error) ==
    IF call.retries <= 0
    THEN [call EXCEPT !.phase = "rejected", !.errors = Append(@, error)]
    ELSE [call EXCEPT !.phase = "wait", !.errors = Append(@, error),
                      !.delays = Append(@, call.delay)]

\* return retry(fn, retries - 1, delay * 2)
retryAgain(call) ==
    [call EXCEPT !.phase = "call", !.retries = @ - 1, !.delay = @ * 2]

\* the fetch under watch: the prefetch of the second card of the session
RetriedTask(task) == task.index = 1 /\ ~task.current

RetriedInFlight == \E task \in BagToSet(loads) : RetriedTask(task)

\* await fn() throws
fetchAttemptRejects(error) ==
    /\ RetriedInFlight
    /\ srs.phase = "call"
    /\ srs' = retryCatch([srs EXCEPT !.attempts = @ + 1], error)
    /\ UnchangedApp

\* await fn() returns the parsed response
fetchAttemptResolves(details) ==
    /\ RetriedInFlight
    /\ srs.phase = "call"
    /\ srs' = [srs EXCEPT !.attempts = @ + 1, !.phase = "resolved",
                          !.value = <<details>>]
    /\ UnchangedApp

\* the timeout of the catch block fires
retryDelayElapsed ==
    /\ RetriedInFlight
    /\ srs.phase = "wait"
    /\ srs' = retryAgain(srs)
    /\ UnchangedApp

\* the session of the two seeded words, the prefetch of its second card
\* going through retry step by step
InitRetry ==
    /\ AppAtRest
    /\ appState = seedInitialData(DEFAULT_STATE)
    /\ stored = appState
    /\ pendingSaves = <<>>
    /\ srs = NewRetry

NextRetry ==
    \/ storePut
    \/ studyQueue = <<>> /\ startSetSession(0, FALSE)
    \/ \E isCorrect \in BOOLEAN : clickOnNext(isCorrect)
    \/ fireOnNext
    \/ \E e \in FetchErrors : fetchAttemptRejects(e)
    \/ \E d \in ContentOnly : fetchAttemptResolves(d)
    \/ retryDelayElapsed
    \/ \E task \in BagToSet(loads) :
          IF RetriedTask(task)
          THEN \/ srs.phase = "resolved" /\ loadCardDone(task, srs.value[1])
               \/ srs.phase = "rejected" /\ loadCardFailed(task)
          ELSE \/ \E d \in ContentOnly : loadCardDone(task, d)
               \/ loadCardFailed(task)

SpecRetry == InitRetry /\ [][NextRetry]_vars

\* ================================================================ claims
\* the items of a document that carry the id
WordsOf(doc, id) == {doc.words[i] : i \in {j \in DOMAIN doc.words : doc.words[j].id = id}}

Progress(w) == <<w.leitnerBox, w.mastered, w.nextReviewDate, w.lastReview>>

NoDup(q) == \A i, j \in DOMAIN q : q[i] = q[j] => i = j

\* the keys an enrichment may write
ContentKeys == {"definitions"}

\* the responses that carry content fields only
ContentResponses == {d \in ProviderResponses : DOMAIN d \subseteq ContentKeys}

\* the step applies the enrichment merge of the response details to word id
MergeStep(id, details) ==
    \/ /\ worker # <<>>
       /\ worker[1].nextId = id
       /\ processNextDone(details)
    \/ \E task \in BagToSet(loads) : task.word.id = id /\ loadCardDone(task, details)

\* the step applies the grade of the callback at the head of timers
GradeStep == timers # <<>> /\ fireOnNext

GradedWord == Head(timers).currentWord

\* the items of the graded word in the document the grade has written
GradedAfter == {appState.words[i]' : i \in {j \in DOMAIN appState'.words :
                                               appState'.words[j].id = GradedWord.id}}

\* C1: a grade and an enrichment merge applied to one word, in either order,
\* both survive: the merge of a content-only response leaves the word with the box, mastered flag,
\* nextReviewDate and lastReview it had (those of the grade) and with the
\* fetched content, and the grade leaves the word with the content it had
C1_GradeAndMergeBothKept ==
    [][/\ \A id \in {appState.words[i].id : i \in DOMAIN appState.words},
             d \in ContentResponses :
             MergeStep(id, d) =>
                 \A w \in WordsOf(appState, id) :
                     \E v \in WordsOf(appState', id) :
                         /\ Progress(v) = Progress(w)
                         /\ v.definitions = d.definitions
       /\ GradeStep =>
             \A w \in WordsOf(appState, GradedWord.id) :
                 \E v \in WordsOf(appState', GradedWord.id) :
                     v.definitions = w.definitions]_vars

\* C2: the enrichment merge of a content-only response leaves leitnerBox, mastered, nextReviewDate,
\* lastReview and userMnemonic of the merged word equal to the values the
\* document holds when the fetch completes
C2_MergeFrame ==
    [][\A id \in {appState.words[i].id : i \in DOMAIN appState.words},
          d \in ContentResponses :
          MergeStep(id, d) =>
              \A i \in DOMAIN appState.words :
                  appState.words[i].id = id =>
                      /\ i \in DOMAIN appState'.words
                      /\ appState'.words[i].leitnerBox = appState.words[i].leitnerBox
                      /\ appState'.words[i].mastered = appState.words[i].mastered
                      /\ appState'.words[i].nextReviewDate =
                             appState.words[i].nextReviewDate
                      /\ appState'.words[i].lastReview = appState.words[i].lastReview
                      /\ appState'.words[i].userMnemonic =
                             appState.words[i].userMnemonic]_vars

\* C3: whatever keys the provider response carries, the merge writes content
\* fields only: every other key of the response leaves the word's field as
\* the document had it
C3_MergeWritesContentOnly ==
    [][\A id \in {appState.words[i].id : i \in DOMAIN appState.words},
          d \in ProviderResponses :
          MergeStep(id, d) =>
              \A k \in DOMAIN d \ ContentKeys :
                  \A w \in WordsOf(appState, id) :
                      \E v \in WordsOf(appState', id) : v[k] = w[k]]_vars

\* C4: pendingQueue never holds an id twice, the background fetch in flight
\* is the one of the queue's head, and as long as an id stays queued its
\* fetch is not started again
C4_EnqueueIdempotent ==
    /\ NoDup(pendingQueue)
    /\ [][/\ NoDup(pendingQueue')
          /\ worker' # <<>> =>
                /\ pendingQueue' # <<>>
                /\ worker'[1].nextId = Head(pendingQueue')
          /\ (worker # <<>> /\ worker' # <<>>
                /\ worker[1].nextId \in Range(pendingQueue')) =>
                worker' = worker]_vars

\* a bulk add with fetchImmediately named the word whose fetch is in flight
\* together with a new word: the new id is queued behind the head
C4_Witness ==
    /\ build = "part_002"
    /\ used.bulk = 1
    /\ worker # <<>>
    /\ worker[1].nextId = <<"seed", 0>>
    /\ pendingQueue = <<(<<"seed", 0>>), (<<"custom", 1>>)>>

\* C5: a grade writes the box and the nextReviewDate calculateNextReview
\* gives for the card's prior box; from box 0 a correct grade gives box 1,
\* due one day after the grade
C5_GradeAppliesTransition ==
    [][GradeStep =>
          \A v \in GradedAfter :
              LET c == Head(timers)
                  r == calculateNextReview(c.currentWord.leitnerBox, c.isCorrect, now)
              IN  /\ v.leitnerBox = r.box
                  /\ v.nextReviewDate = r.nextReview
                  /\ (c.currentWord.leitnerBox = 0 /\ c.isCorrect) =>
                        /\ v.leitnerBox = 1
                        /\ v.nextReviewDate = now + DaySecs]_vars

\* C6: a correct answer moves box b to b + 1 for b in 0..4 and keeps box 5
C6_CorrectTransition ==
    (srs.result # <<>> /\ srs.isCorrect) =>
        srs.result[1].box = (IF srs.currentBox <= 4 THEN srs.currentBox + 1 ELSE 5)

C6_Witness ==
    /\ srs.result # <<>>
    /\ srs.isCorrect
    /\ srs.currentBox = 5
    /\ srs.result[1].box = 5

\* C7: an incorrect answer moves every box b in 0..5 to box 1
C7_IncorrectTransition ==
    (srs.result # <<>> /\ ~srs.isCorrect) => srs.result[1].box = 1

C7_Witness ==
    /\ srs.result # <<>>
    /\ ~srs.isCorrect
    /\ srs.currentBox = 5
    /\ srs.result[1].box = 1

\* C8: after a grade the graded word is mastered exactly when its new box
\* is 5; a box 4 card answered correctly ends at box 5 and mastered, a
\* mastered card answered incorrectly ends at box 1 and not mastered
C8_MasteredIffBoxFive ==
    [][GradeStep =>
          \A v \in GradedAfter :
              LET c == Head(timers)
              IN  /\ v.mastered <=> (v.leitnerBox = 5)
                  /\ (c.currentWord.leitnerBox = 4 /\ c.isCorrect) =>
                        (v.leitnerBox = 5 /\ v.mastered)
                  /\ (c.currentWord.mastered /\ c.currentWord.leitnerBox = 5
                        /\ ~c.isCorrect) =>
                        (v.leitnerBox = 1 /\ ~v.mastered)]_vars

\* the box 4 word of the loaded document has been graded correct under
\* calculateNextReview: box 5, mastered, reviewed in this run
C8_Witness ==
    /\ build = "App"
    /\ \E w \in WordsOf(appState, <<"seed", 1>>) :
          /\ w.leitnerBox = 5
          /\ w.mastered
          /\ w.lastReview >= StartNow

\* C9: in every document mastered implies leitnerBox >= 5, and leitnerBox
\* stays in 0..5
C9_MasteredBoxInvariant ==
    \A i \in DOMAIN appState.words :
        /\ appState.words[i].mastered => appState.words[i].leitnerBox >= 5
        /\ appState.words[i].leitnerBox \in 0 .. 5

\* C10: every grade adds 1 to dailyProgress, and adds 1 to
\* dailyUniqueProgress exactly when the graded card was at box 0
C10_ProgressCounters ==
    [][GradeStep =>
          /\ appState'.dailyProgress = appState.dailyProgress + 1
          /\ appState'.dailyUniqueProgress = appState.dailyUniqueProgress +
                 (IF GradedWord.leitnerBox = 0 THEN 1 ELSE 0)]_vars


\* C11: isDueForReview is false for every mastered word, whatever its box
\* and its nextReviewDate (unset or past included)
C11_MasteredNeverDue ==
    (srs.result # <<>> /\ srs.word.mastered) => srs.result[1] = FALSE

\* a mastered word below box 5 whose date has passed was asked for
C11_Witness ==
    /\ srs.result # <<>>
    /\ srs.word.mastered
    /\ srs.word.leitnerBox = 3
    /\ srs.word.nextReviewDate = StartNow - DaySecs
    /\ srs.result[1] = FALSE

\* C12: isDueForReview is false for every word of box 0, whatever its
\* nextReviewDate (unset or past included)
C12_BoxZeroNeverDue ==
    (srs.result # <<>> /\ srs.word.leitnerBox = 0) => srs.result[1] = FALSE

\* a word of box 0, not mastered, with a date in the past was asked for
C12_Witness ==
    /\ srs.result # <<>>
    /\ ~srs.word.mastered
    /\ srs.word.leitnerBox = 0
    /\ srs.word.nextReviewDate = StartNow - DaySecs
    /\ srs.result[1] = FALSE

\* C13: for a word not mastered and above box 0, isDueForReview is true
\* exactly when now >= nextReviewDate, and an unset or zero date is due
C13_DueIffDateReached ==
    (srs.result # <<>> /\ ~srs.word.mastered /\ srs.word.leitnerBox > 0) =>
        /\ srs.result[1] <=> (srs.t >= srs.word.nextReviewDate)
        /\ srs.word.nextReviewDate = 0 => srs.result[1]

\* a word asked for at the very instant of its nextReviewDate is due
C13_Witness ==
    /\ srs.result # <<>>
    /\ ~srs.word.mastered
    /\ srs.word.leitnerBox > 0
    /\ srs.word.nextReviewDate = srs.t
    /\ srs.result[1]

\* C14: getReviewQueue returns exactly the due words, each once, in the
\* order of the collection
C14_QueueIsDueSubsequence ==
    srs.result # <<>> =>
        LET w == srs.words
            r == srs.result[1]
        IN  /\ \A i \in DOMAIN w :
                   Cardinality({j \in DOMAIN r : r[j] = w[i]}) =
                       (IF isDueForReview(w[i], srs.t) THEN 1 ELSE 0)
            /\ \E f \in [DOMAIN r -> DOMAIN w] :
                   /\ \A j \in DOMAIN r : r[j] = w[f[j]]
                   /\ \A j, k \in DOMAIN r : j < k => f[j] < f[k]

\* two due words around one that is not due came back as the two, in order
C14_Witness ==
    /\ srs.result # <<>>
    /\ Len(srs.words) = 3
    /\ ~isDueForReview(srs.words[2], srs.t)
    /\ srs.result[1] = <<srs.words[1], srs.words[3]>>
    /\ srs.words[1].id = <<"seed", 2>>

\* the interval table of the scheduling policy, in days, by new box
IntervalDays == [b \in 1 .. 5 |-> CASE b = 1 -> 1 [] b = 2 -> 3 [] b = 3 -> 7
                                      [] b = 4 -> 14 [] b = 5 -> 30]

\* C15: every grade schedules the word at now + IntervalDays[newBox] days,
\* newBox the box the transition gives for the card's prior box, and not at
\* a fixed 30 days or 1 day
C15_GradeSchedulesByTable ==
    [][GradeStep =>
          \A v \in GradedAfter :
              LET c == Head(timers)
                  newBox == IF c.isCorrect THEN Min(c.currentWord.leitnerBox + 1, 5)
                            ELSE 1
              IN  v.nextReviewDate = now + IntervalDays[newBox] * DaySecs]_vars

\* the cards of the session that have been acknowledged: those before the
\* current index, and all of them once the session is complete
PassedCards ==
    {j \in DOMAIN studyQueue : sessionComplete \/ j <= currentCardIndex}

\* doc carries a grade of word id made in this run that the store lacks
UnstoredGrade(doc, id) ==
    \E w \in WordsOf(doc, id) :
        /\ w.lastReview >= StartNow
        /\ \A v \in WordsOf(stored, id) : v.lastReview # w.lastReview

\* C16: in no state has the session moved past a card (index advanced or
\* session complete) whose grade is not yet in the store
C16_AcknowledgedOnlyWhenStored ==
    \A j \in PassedCards : ~UnstoredGrade(appState, studyQueue[j].id)

\* C17: when the store fails on the save of a grade, the session has not
\* moved past the graded card
C17_FailedSaveDoesNotProceed ==
    [][(pendingSaves # <<>> /\ storePutFailed) =>
          \A j \in PassedCards :
              ~UnstoredGrade(Head(pendingSaves), studyQueue[j].id)]_vars

\* C18: a load that follows a returned save(state) yields a document equal
\* to state, field for field
C18_SaveLoadRoundTrip ==
    (srs.saved # <<>> /\ srs.result # <<>>) => srs.result[1] = srs.saved[1]

\* the files that are not a document: no JSON, no words, no numeric streak
MalformedFiles ==
    {file \in ImportFiles :
        ~("json" \in DOMAIN file /\ "words" \in DOMAIN file.json
             /\ "streak" \in DOMAIN file.json)}

\* C19: the import of a malformed file changes neither the AppState in
\* memory nor the stored document nor the writes handed to the store,
\* whatever the user answers to a confirmation
C19_MalformedImportRejected ==
    [][\A file \in MalformedFiles, c \in BOOLEAN :
          handleImportData(file, c) =>
              /\ appState' = appState
              /\ stored' = stored
              /\ pendingSaves' = pendingSaves]_vars

\* C20: the import of a backup document replaces the whole AppState in
\* memory and hands the whole document to the store when the user confirms,
\* and changes neither memory nor store when the user declines
C20_ImportAfterConfirmation ==
    [][\A c \in BOOLEAN :
          handleImportData([json |-> BackupDoc], c) =>
              IF c
              THEN /\ appState' = BackupDoc
                   /\ pendingSaves' = Append(pendingSaves, BackupDoc)
                   /\ stored' = stored
              ELSE /\ appState' = appState
                   /\ stored' = stored
                   /\ pendingSaves' = pendingSaves]_vars

\* a confirmed import has replaced the document in memory and in the store
C20_Witness ==
    /\ used.import = 1
    /\ appState = BackupDoc
    /\ stored = BackupDoc
    /\ pendingSaves = <<>>

\* the word whose prefetch goes through retry
RetriedWord == studyQueue[2]

\* C21: when the fetch of a session word fails twice and succeeds on the
\* third attempt, the App ends (fetch merged, no callback pending) with
\* non-empty definitions for that word
C21_RetryAbsorbsTwoFailures ==
    (/\ srs.phase = "resolved"
     /\ Len(srs.errors) = 2
     /\ Len(studyQueue) >= 2
     /\ ~RetriedInFlight
     /\ timers = <<>>) =>
        \A w \in WordsOf(appState, RetriedWord.id) : w.definitions # 0

\* C22, as claimed: retry makes at most 3 attempts, each delay is twice
\* the one before, and when every attempt fails the call ends by throwing
\* the last error
C22_AtMostThreeAttempts ==
    /\ srs.attempts <= 3
    /\ \A i \in DOMAIN srs.delays : i > 1 => srs.delays[i] = 2 * srs.delays[i - 1]
    /\ srs.phase = "rejected" => srs.attempts = Len(srs.errors)

\* C22, amended: retry makes at most 1 + RETRIES = 4 attempts, waits DELAY
\* and then twice the wait before, and a call whose every attempt fails is
\* rejected at its 4th attempt with the error of that attempt
C22_AtMostFourAttempts ==
    /\ srs.attempts <= 1 + RETRIES
    /\ srs.phase \in {"call", "wait"} => Len(srs.errors) = srs.attempts
    /\ Len(srs.errors) < 1 + RETRIES => srs.phase # "rejected"
    /\ Len(srs.errors) = 1 + RETRIES => srs.phase = "rejected"
    /\ \A i \in DOMAIN srs.delays :
          srs.delays[i] = (IF i = 1 THEN DELAY ELSE 2 * srs.delays[i - 1])
    /\ srs.phase = "wait" => Len(srs.delays) = Len(srs.errors)
    /\ srs.phase = "wait" => srs.delay = srs.delays[Len(srs.delays)]

\* every attempt has failed: four calls, three waits, the call rejected
C22_Witness ==
    /\ srs.phase = "rejected"
    /\ srs.attempts = 4
    /\ srs.delays = <<1000, 2000, 4000>>
    /\ srs.errors[4] = "parse"

\* C23: a failed background fetch takes its id off the queue, the worker
\* neither re-queues nor fetches it again, the document and its saves are
\* as they were, and a word that had no definitions still has none
C23_WorkerFailureDropsId ==
    [][(worker # <<>> /\ processNextFailed) =>
          LET id == worker[1].nextId
          IN  /\ appState' = appState
              /\ stored' = stored
              /\ pendingSaves' = pendingSaves
              /\ id \notin Range(pendingQueue')
              /\ worker' # <<>> => worker'[1].nextId # id
              /\ \A w \in WordsOf(appState, id) :
                     w.definitions = 0 => w \in WordsOf(appState', id)]_vars

\* the only fetch of the custom word found at start-up has failed: the
\* queue is empty, nothing is in flight, the word has no definitions
C23_Witness ==
    /\ build = "part_002"
    /\ used = NoneUsed
    /\ pendingQueue = <<>>
    /\ worker = <<>>
    /\ \E w \in Range(appState.words) : w.isCustom /\ w.definitions = 0

\* the ids of the document's words, in order
IdsOf(doc) == [i \in DOMAIN doc.words |-> doc.words[i].id]

\* C24: a completion never changes the ids of the document or their order
\* and changes nothing when its word is gone; a fetch starts only for a
\* word of the document, and the queue keeps no id past its turn
C24_AbsentWordDiscarded ==
    [][/\ \A d \in ProviderResponses :
             (worker # <<>> /\ processNextDone(d)) =>
                 /\ IdsOf(appState') = IdsOf(appState)
                 /\ worker[1].nextId \notin Range(IdsOf(appState)) =>
                        appState' = appState
       /\ (worker' # <<>> /\ worker' # worker) =>
             /\ worker'[1].nextId \in Range(IdsOf(appState'))
             /\ worker'[1].wordToFetch \in Range(appState'.words)
       /\ worker' # <<>> =>
             pendingQueue' # <<>> /\ Head(pendingQueue') = worker'[1].nextId
       /\ worker' = <<>> => pendingQueue' = <<>>]_vars

\* the fetch of a word added in bulk has completed after an import removed
\* the word: the imported document is saved again as it is
C24_Witness ==
    /\ build = "part_002"
    /\ used.bulk = 1
    /\ used.import = 1
    /\ customMinted = 1
    /\ appState = BackupDoc
    /\ stored = BackupDoc
    /\ pendingSaves = <<BackupDoc>>
    /\ worker = <<>>

\* C25: at most one background fetch is in flight
C25_OneFetchInFlight == Len(worker) <= 1

\* a background fetch is in flight while another id waits behind it
C25_Witness ==
    /\ Len(worker) = 1
    /\ Len(pendingQueue) >= 2

\* a fetch that loadCard made for the card now active, as the current card
ForActiveCard(task) ==
    /\ task.current
    /\ task.index = currentCardIndex
    /\ task.index < Len(studyQueue)
    /\ studyQueue[task.index + 1].id = task.word.id

\* C26: when the fetch for the active card fails, the document, the queue
\* (so the card's empty definitions), the index, the completion flag and
\* the view are as before, the loading flag is cleared, and in a session
\* that was active the Flashcard with its grade buttons is shown
C26_ActiveCardFailureKeepsSession ==
    [][\A task \in BagToSet(loads) :
          (ForActiveCard(task) /\ loadCardFailed(task)) =>
              /\ appState' = appState
              /\ pendingSaves' = pendingSaves
              /\ studyQueue' = studyQueue
              /\ currentCardIndex' = currentCardIndex
              /\ sessionComplete' = sessionComplete
              /\ currentView' = currentView
              /\ ~isLoadingWord'
              /\ (currentView = "STUDY" /\ ~sessionComplete) => FlashcardShown']_vars

\* the fetch for the active card has failed and the learner has pressed a
\* grade button on the card, which still has no definitions
C26_Witness ==
    /\ FlashcardShown
    /\ studyQueue[currentCardIndex + 1].definitions = 0
    /\ \A task \in BagToSet(loads) : task.index # currentCardIndex
    /\ timers # <<>>
    /\ timers[1].currentWord = studyQueue[currentCardIndex + 1]

\* a fetch in flight for the card now active, whichever render made it
FetchesActiveCard(task) ==
    /\ currentCardIndex < Len(studyQueue)
    /\ task.index = currentCardIndex
    /\ task.word.id = studyQueue[currentCardIndex + 1].id

\* C27: in a session, while the active card has no definitions and a fetch
\* for it is in flight, the loading flag is set, so that the Flashcard and
\* its grade buttons are not shown
C27_LoadingBlocksActiveCard ==
    (/\ currentView = "STUDY"
     /\ ~sessionComplete
     /\ currentCardIndex < Len(studyQueue)
     /\ studyQueue[currentCardIndex + 1].definitions = 0
     /\ \E task \in BagToSet(loads) : FetchesActiveCard(task)) =>
        isLoadingWord /\ ~FlashcardShown

\* C27, second part: the loading flag is cleared only by a step in which a
\* fetch for the active card settles
C27_ClearedOnlyByActiveFetch ==
    [][(isLoadingWord /\ ~isLoadingWord') =>
          \E task \in BagToSet(loads) :
              /\ FetchesActiveCard(task)
              /\ \/ loadCardFailed(task)
                 \/ \E d \in ProviderResponses : loadCardDone(task, d)]_vars

\* C28: a session start with a non-empty list makes the list the study
\* queue at index 0, not complete, in the study view, in the same step and
\* with the fetches it started still in flight; with an empty list the
\* queue, the index, the completion flag and the view stay as they were
C28_StartSessionImmediate ==
    [][/\ startReviewSession =>
             LET targetWords == getReviewQueue(appState.words, now)
             IN  IF targetWords = <<>>
                 THEN /\ studyQueue' = studyQueue
                      /\ currentCardIndex' = currentCardIndex
                      /\ sessionComplete' = sessionComplete
                      /\ currentView' = currentView
                 ELSE /\ studyQueue' = targetWords
                      /\ currentCardIndex' = 0
                      /\ ~sessionComplete'
                      /\ currentView' = "STUDY"
       /\ used.session' # used.session =>
             \/ /\ studyQueue' = studyQueue
                /\ currentCardIndex' = currentCardIndex
                /\ sessionComplete' = sessionComplete
                /\ currentView' = currentView
             \/ /\ studyQueue' # <<>>
                /\ currentCardIndex' = 0
                /\ ~sessionComplete'
                /\ currentView' = "STUDY"
                /\ \A w \in Range(studyQueue') : w \in Range(appState.words)
                /\ studyQueue'[1].definitions = 0 =>
                      \E task \in BagToSet(loads') : task.index = 0]_vars

\* a review with nothing due has started no session, and the set session
\* started after it is active at card 0 while its fetches are in flight
C28_Witness ==
    /\ used = [NoneUsed EXCEPT !.session = 2]
    /\ currentView = "STUDY"
    /\ studyQueue # <<>>
    /\ currentCardIndex = 0
    /\ ~sessionComplete
    /\ \E task \in BagToSet(loads) : task.index = 0

\* C29: a grade given while a card before the last is active moves the
\* index forward by one and leaves the session incomplete; a grade given
\* while the last card is active completes the session at the same index
C29_GradeAdvancesOrCompletes ==
    [][(GradeStep /\ studyQueue # <<>> /\ ~sessionComplete) =>
          IF currentCardIndex < Len(studyQueue) - 1
          THEN /\ currentCardIndex' = currentCardIndex + 1
               /\ ~sessionComplete'
          ELSE /\ currentCardIndex' = currentCardIndex
               /\ sessionComplete']_vars

\* the scheduling fields of the items of a document that have the id
SchedulingOf(doc, id) ==
    {<<w.leitnerBox, w.mastered, w.nextReviewDate>> : w \in WordsOf(doc, id)}

ScheduleKept ==
    \A id \in Range(IdsOf(appState)) :
        SchedulingOf(appState', id) = SchedulingOf(appState, id)

ContentOutcomes == {{}} \cup {{d} : d \in ContentResponses}

\* C30: a mnemonic save, the save of a generated image, a bulk add of
\* words (with well-formed answers to its fetches) and a reshuffle leave
\* leitnerBox, mastered and nextReviewDate of every word of the current
\* document as they are
C30_OnlyGradesChangeSchedule ==
    [][(\/ \E m \in Mnemonics :
              handleMnemonicUpdate(studyQueue[currentCardIndex + 1].id, m)
        \/ \E k \in BagToSet(imageTasks), img \in {"", "img"} : generateImageDone(k, img)
        \/ \E inputs \in BulkInputs, f \in BOOLEAN : handleBulkAddWords(inputs, f)
        \/ \E inputs \in BulkInputs, f \in BOOLEAN : handleBulkAddWordsApp(inputs, f)
        \/ \E o \in UNION {[1 .. n -> ContentOutcomes] : n \in 1 .. 2} : bulkAddDone(o)
        \/ handleSmartReshuffle) => ScheduleKept]_vars

\* the category predicates of the smart decks
InCategory(type, w) ==
    IF type = "mastered" THEN w.mastered
    ELSE IF type = "learning" THEN ~w.mastered /\ w.leitnerBox > 0
    ELSE w.isCustom \/ w.id[1] = "custom"

\* C31: the queue of a category session holds exactly the words of the
\* document that satisfy the category's predicate, no id twice, whichever
\* ordering is configured
C31_DeckIsCategoryPermutation ==
    [][\A type \in {"mastered", "learning", "custom"},
          sort \in {"random", "newest", "oldest"} :
          startCustomSession(type, sort) =>
              LET members == {w \in Range(appState.words) : InCategory(type, w)}
              IN  /\ Range(studyQueue') = members
                  /\ Len(studyQueue') = Cardinality({w.id : w \in members})
                  /\ NoDup(IdsOf([words |-> studyQueue']))]_vars

\* the custom deck of two words, the word added last first
C31_Witness ==
    /\ currentView = "STUDY"
    /\ Len(studyQueue) = 2
    /\ studyQueue[1].id = <<"custom", 1>>
    /\ studyQueue[2].id = <<"seed", 0>>
    /\ studyQueue[2].isCustom

\* the seeded words of the document at positions [from, to) of their order
SeedsAt(from, to) ==
    LET at == {i \in DOMAIN appState.words : appState.words[i].id[1] = "seed"}
        rank(i) == Cardinality({j \in at : j < i})
        pos == {i \in at : from <= rank(i) /\ rank(i) < to}
    IN  SelectSeq([i \in DOMAIN appState.words |-> IF i \in pos THEN <<appState.words[i]>>
                                                  ELSE <<>>],
                  LAMBDA x : x # <<>>)

\* C32: a set session studies, of the seeded words at positions
\* [30 * setIndex, 30 * setIndex + 30), those with leitnerBox = 0 or not
\* mastered, in their order; when there are none it studies the whole set
\* if the user confirms, and changes nothing if the user declines
C32_SetSessionSelection ==
    [][\A setIndex \in 0 .. MaxSetIndex, c \in BOOLEAN :
          startSetSession(setIndex, c) =>
              LET set == SeedsAt(30 * setIndex, 30 * setIndex + 30)
                  open == SelectSeq(set, LAMBDA x : x[1].leitnerBox = 0 \/ ~x[1].mastered)
                  chosen == IF open # <<>> THEN open ELSE IF c THEN set ELSE <<>>
              IN  IF chosen # <<>>
                  THEN /\ studyQueue' = [i \in DOMAIN chosen |-> chosen[i][1]]
                       /\ currentView' = "STUDY"
                       /\ currentCardIndex' = 0
                       /\ ~sessionComplete'
                  ELSE /\ studyQueue' = studyQueue
                       /\ currentView' = currentView
                       /\ currentCardIndex' = currentCardIndex
                       /\ sessionComplete' = sessionComplete]_vars

\* every word of the first set is mastered and the user has confirmed: the
\* session holds the 30 words of the set, the custom word not among them
C32_Witness ==
    /\ currentView = "STUDY"
    /\ Len(studyQueue) = 30
    /\ \A i \in DOMAIN studyQueue : studyQueue[i].mastered /\ studyQueue[i].id[1] = "seed"
    /\ appState.words[30].id[1] = "custom"

\* C33: no word has two provider fetches in flight at once, counting the
\* fetches of loadCard and the fetch of the background worker
C33_OneFetchPerWord ==
    /\ \A task \in BagToSet(loads) : CopiesIn(task, loads) = 1
    /\ \A t1, t2 \in BagToSet(loads) : t1.word.id = t2.word.id => t1 = t2
    /\ \A task \in BagToSet(loads) : worker # <<>> => worker[1].nextId # task.word.id

\* C33, the lazy loader alone: loadCard has no two fetches in flight for
\* one word
C33_LazyLoaderAlone ==
    /\ \A task \in BagToSet(loads) : CopiesIn(task, loads) = 1
    /\ \A t1, t2 \in BagToSet(loads) : t1.word.id = t2.word.id => t1 = t2

\* C34: while a session is active (study view, cards loaded, not complete)
\* the index is a position of the study queue
C34_IndexInRange ==
    (currentView = "STUDY" /\ studyQueue # <<>> /\ ~sessionComplete) =>
        (0 <= currentCardIndex /\ currentCardIndex < Len(studyQueue))

QueueIds == {<<"seed", i>> : i \in 0 .. 1} \cup {<<"custom", n>> : n \in 1 .. MaxCustom}

\* C36: when every fetch of the worker settles, a queue that is not empty
\* has a fetch in flight, every queued id leaves the queue, and the queue
\* is empty from some point on
C36_QueueDrains ==
    /\ [](pendingQueue # <<>> => worker # <<>>)
    /\ \A id \in QueueIds :
          (id \in Range(pendingQueue)) ~> (id \notin Range(pendingQueue))
    /\ <>[](pendingQueue = <<>>)

\* the queue held two ids after a bulk add and has drained; the word added
\* has been fetched
C36_Witness ==
    /\ used.bulk = 1
    /\ customMinted = 1
    /\ pendingQueue = <<>>
    /\ worker = <<>>
    /\ \E w \in Range(appState.words) : w.id = <<"custom", 1>> /\ w.definitions = 1

\* q is p with some of its first elements taken off
IsSuffix(q, p) ==
    /\ Len(q) <= Len(p)
    /\ q = SubSeq(p, Len(p) - Len(q) + 1, Len(p))

\* q is p with elements added at its end
IsPrefix(p, q) ==
    /\ Len(p) <= Len(q)
    /\ p = SubSeq(q, 1, Len(p))

\* C37: the id in flight is the head of the queue; a settling fetch takes
\* its own id off the queue; the fetch that starts next is for the first
\* remaining id whose word is in the document, the ids before it being
\* dropped; and an enqueue adds ids at the end only
C37_QueueIsFifo ==
    [][/\ worker # <<>> => Head(pendingQueue) = worker[1].nextId
       /\ (worker # <<>> /\ FetchSettles) =>
             /\ IsSuffix(pendingQueue', Tail(pendingQueue))
             /\ worker[1].nextId \notin Range(pendingQueue')
             /\ \A id \in Range(Tail(pendingQueue)) \ Range(pendingQueue') :
                   id \notin Range(IdsOf(appState'))
       /\ worker' # <<>> => Head(pendingQueue') = worker'[1].nextId
       /\ ~FetchSettles =>
             \/ IsPrefix(pendingQueue, pendingQueue')
             \/ /\ worker = <<>>
                /\ \E k \in 1 .. Len(pendingQueue) :
                      /\ IsPrefix(SubSeq(pendingQueue, k, Len(pendingQueue)), pendingQueue')
                      /\ \A j \in 1 .. k - 1 :
                            pendingQueue[j] \notin Range(IdsOf(appState'))]_vars

\* the word added in bulk was queued first and its fetch has settled; the
\* word queued behind it is being fetched
C37_Witness ==
    /\ customMinted = 1
    /\ pendingQueue = << <<"seed", 0>> >>
    /\ worker # <<>>
    /\ worker[1].nextId = <<"seed", 0>>

\* what C38 asks of a bulk add that read the document before and wrote the
\* document after: the items of before are at their positions, each as it
\* was or, if an input names it, marked custom and otherwise as it was; the
\* items added come after them, one per new lower-cased headword
BulkDedup(before, after, inputs) ==
    LET named == {toLowerCase(inputs[k]) : k \in DOMAIN inputs}
        old == {toLowerCase(before.words[i].word) : i \in DOMAIN before.words}
        added == {i \in DOMAIN after.words : i > Len(before.words)}
    IN  /\ Len(after.words) >= Len(before.words)
        /\ \A i \in DOMAIN before.words :
              after.words[i] = (IF toLowerCase(before.words[i].word) \in named
                                THEN [before.words[i] EXCEPT !.isCustom = TRUE]
                                ELSE before.words[i])
        /\ Cardinality(added) = Cardinality(named \ old)
        /\ \A i \in added :
              /\ toLowerCase(after.words[i].word) \in named \ old
              /\ after.words[i].isCustom
              /\ after.words[i].id \notin Range(IdsOf(before))
              /\ \A j \in added :
                    toLowerCase(after.words[j].word) = toLowerCase(after.words[i].word)
                        => j = i

\* C38: every bulk add, of either build, deduplicates case-insensitively:
\* BulkDedup holds of the document it read, the document it writes and the
\* words submitted
C38_BulkAddDeduplicates ==
    [][/\ \A inputs \in BulkInputs, f \in BOOLEAN :
             handleBulkAddWords(inputs, f) => BulkDedup(appState, appState', inputs)
       /\ \A inputs \in BulkInputs, f \in BOOLEAN :
             (handleBulkAddWordsApp(inputs, f) /\ bulkTask' = <<>>) =>
                 BulkDedup(appState, appState', inputs)
       /\ \A o \in UNION {[1 .. n -> FetchOutcomes] : n \in 1 .. 2} :
             (bulkTask # <<>> /\ bulkAddDone(o)) =>
                 BulkDedup(bulkTask[1].appState, appState', bulkTask[1].inputs)]_vars

\* C38 of part_002 alone
C38_QueueingBulkAdd ==
    [][\A inputs \in BulkInputs, f \in BOOLEAN :
          handleBulkAddWords(inputs, f) => BulkDedup(appState, appState', inputs)]_vars

\* C38 of App.tsx without the content and progress of the items: ids,
\* positions and the number of items added
C38_InlineBulkAddKeepsIds ==
    [][\A o \in UNION {[1 .. n -> FetchOutcomes] : n \in 1 .. 2} :
          (bulkTask # <<>> /\ bulkAddDone(o)) =>
              LET before == bulkTask[1].appState
                  inputs == bulkTask[1].inputs
                  named == {toLowerCase(inputs[k]) : k \in DOMAIN inputs}
                  old == {toLowerCase(before.words[i].word) : i \in DOMAIN before.words}
              IN  /\ IsPrefix(IdsOf(before), IdsOf(appState'))
                  /\ Len(appState'.words) - Len(before.words) = Cardinality(named \ old)
                  /\ \A i \in DOMAIN before.words :
                        toLowerCase(before.words[i].word) \in named =>
                            appState'.words[i].isCustom]_vars

====
